---- MODULE Spec2Model ----
(***************************************************************************)
(* Federated aggregation and population-based exploration controller of    *)
(* fed/utils.py.  A ParameterSet is abstracted to one numeric entry, kept  *)
(* as an extended rational <<n, d>> (d = 0 encodes the non-finite floats:  *)
(* <<1,0>> = inf, <<-1,0>> = -inf, <<0,0>> = nan).  A Python dict is a     *)
(* sequence of <<key, value>> pairs in insertion order.                    *)
(***************************************************************************)
EXTENDS Integers, Sequences, FiniteSets

VARIABLES args, callback, weights, policies, result, lastOp, branch, raised,
          all_weights, lower_quantile, upper_quantile, new_policy_graph,
          sel, eh, agg

vars == <<args, callback, weights, policies, result, lastOp, branch, raised,
          all_weights, lower_quantile, upper_quantile, new_policy_graph,
          sel, eh, agg>>

mainVars == <<args, callback, weights, policies, result, lastOp, branch, raised,
              all_weights, lower_quantile, upper_quantile, new_policy_graph>>

(* ---------------------------- bounds ----------------------------------- *)
MaxAgents == 3
MaxIter == 2
MaxInterval == 3
MaxPop == 4
MaxLen == 3

(* ------------------------ numeric helpers ------------------------------ *)
Abs(n) == IF n < 0 THEN -n ELSE n

Sign(n) == IF n < 0 THEN -1 ELSE IF n > 0 THEN 1 ELSE 0

Max2(a, b) == IF a >= b THEN a ELSE b

Min2(a, b) == IF a <= b THEN a ELSE b

RECURSIVE GCD(_, _)
GCD(a, b) == IF b = 0 THEN a ELSE GCD(b, a % b)

RECURSIVE Pow2(_)
Pow2(k) == IF k <= 0 THEN 1 ELSE 2 * Pow2(k - 1)

\* math.floor / math.ceil of the quotient a / b, b > 0
Floor(a, b) == a \div b

Ceil(a, b) == -((-a) \div b)

\* float arithmetic on extended rationals
RNorm(r) ==
    IF r[2] = 0 THEN <<Sign(r[1]), 0>>
    ELSE LET s == IF r[2] < 0 THEN -1 ELSE 1
             g == GCD(Abs(r[1]), Abs(r[2]))
         IN  <<(s * r[1]) \div g, (s * r[2]) \div g>>

RMul(a, b) == RNorm(<<a[1] * b[1], a[2] * b[2]>>)

RAdd(a, b) ==
    IF a[2] = 0 /\ b[2] = 0
    THEN (IF a = b THEN a ELSE <<0, 0>>)
    ELSE RNorm(<<a[1] * b[2] + b[1] * a[2], a[2] * b[2]>>)

RDiv(n, d) == RNorm(<<n, d>>)

NaN == <<0, 0>>

(* ------------------------- dict / list helpers ------------------------- *)
Keys(d) == {d[k][1] : k \in 1..Len(d)}

KeyList(d) == [k \in 1..Len(d) |-> d[k][1]]

Values(d) == [k \in 1..Len(d) |-> d[k][2]]

Elems(s) == {s[k] : k \in 1..Len(s)}

RECURSIVE SumInt(_)
SumInt(s) == IF s = <<>> THEN 0 ELSE Head(s) + SumInt(Tail(s))

RECURSIVE MaxInt(_)
MaxInt(s) == IF Len(s) = 1 THEN s[1] ELSE Max2(Head(s), MaxInt(Tail(s)))

RECURSIVE SumRat(_)
SumRat(s) == IF s = <<>> THEN <<0, 1>> ELSE RAdd(Head(s), SumRat(Tail(s)))

\* s[k:] and s[:m] of a Python list, for any integer k and m >= 0
SliceFrom(s, k) ==
    LET start == IF k < 0 THEN Max2(0, Len(s) + k) ELSE Min2(k, Len(s))
    IN  SubSeq(s, start + 1, Len(s))

SliceTo(s, m) == SubSeq(s, 1, Min2(m, Len(s)))

\* s[i] of a Python list for a 0-based index i, negative indices counting from the end
PyIndex(s, i) == IF i < 0 THEN s[Len(s) + i + 1] ELSE s[i + 1]

\* list.index(x): 0-based position of the first occurrence
IndexOf(s, x) == (CHOOSE k \in 1..Len(s) : s[k] = x /\ \A j \in 1..(k - 1) : s[j] # x) - 1

\* all orderings of the elements of a finite set
RECURSIVE Perms(_)
Perms(S) ==
    IF S = {} THEN {<<>>}
    ELSE UNION {{<<x>> \o p : p \in Perms(S \ {x})} : x \in S}

(* ----------------------- configuration (args) -------------------------- *)
Agents(a) == 0..(a.num_agents - 1)

\* random.random() < args.resample_probability can come out true / false
CanResample(a) == a.resample_probability[1] > 0

CanKeep(a) == a.resample_probability[1] < a.resample_probability[2]

(* --------------------------- synchronize ------------------------------- *)
\* weights_to_set = {agent_i: weights for i in range(num_agents)}; set_weights
synchronize(new_weights, a) == [i \in Agents(a) |-> new_weights]

\* variant: the copy is taken from agent_1
uniform_initialize_agent_1(w, a) == synchronize(w[1], a)

uniform_initialize(w, a) == synchronize(w[0], a)

\* agent.get_weights(): the dict agent id -> ParameterSet, in policy order
get_weights(w, a) == [k \in 1..a.num_agents |-> <<k - 1, w[k - 1]>>]

(* --------------------------- aggregation ------------------------------- *)
\* np.exp(beta * (x - np.max(x))) with beta = args.temp = ln 2: 2^(x - max)
ExpShifted(x, m) == RDiv(1, Pow2(m - x))

softmax(alpha_vals) ==
    LET m == MaxInt(alpha_vals)
        e_x == [k \in 1..Len(alpha_vals) |-> ExpShifted(alpha_vals[k], m)]
        s == SumRat(e_x)
    IN  [k \in 1..Len(alpha_vals) |-> RNorm(<<e_x[k][1] * s[2], e_x[k][2] * s[1]>>)]

proportional(alpha_vals) ==
    LET s == SumInt(alpha_vals)
    IN  [k \in 1..Len(alpha_vals) |-> RDiv(alpha_vals[k], s)]

\* np.multiply(weight_vals, soft) of an (M, D) array and an (N, 1) array
CanBroadcast(M, N) == M = N \/ M = 1 \/ N = 1

Multiply(weight_vals, soft) ==
    LET M == Len(weight_vals)
        N == Len(soft)
    IN  [k \in 1..Max2(M, N) |->
            RMul(weight_vals[IF M = 1 THEN 1 ELSE k], soft[IF N = 1 THEN 1 ELSE k])]

\* which reward entry's coefficient lands on which weight entry: positional
Pairing(w, alphas) ==
    LET M == Len(w)
        N == Len(alphas)
    IN  [k \in 1..Max2(M, N) |->
            [wkey |-> w[IF M = 1 THEN 1 ELSE k][1],
             rkey |-> alphas[IF N = 1 THEN 1 ELSE k][1]]]

\* .reshape(length, 1) fails unless the array has exactly num_agents entries
WeightedAvg(w, alphas, coefs, a) ==
    IF Len(alphas) # a.num_agents \/ ~CanBroadcast(Len(w), Len(alphas))
    THEN [raised |-> "ValueError", new_weights |-> NaN, pairing |-> <<>>]
    ELSE [raised |-> "none",
          new_weights |-> SumRat(Multiply(Values(w), coefs)),
          pairing |-> Pairing(w, alphas)]

compute_softmax_weighted_avg(w, alphas, a) ==
    IF alphas = <<>>
    THEN [raised |-> "ValueError", new_weights |-> NaN, pairing |-> <<>>]
    ELSE WeightedAvg(w, alphas, softmax(Values(alphas)), a)

compute_reward_weighted_avg(w, alphas, a) ==
    WeightedAvg(w, alphas, proportional(Values(alphas)), a)

(* ------------------------- quantile selection -------------------------- *)
\* sorted(policy_reward_mean.items(), key=lambda kv: kv[1]): stable, ascending
RECURSIVE InsertStable(_, _)
InsertStable(s, x) ==
    IF s = <<>> THEN <<x>>
    ELSE IF s[Len(s)][2] <= x[2] THEN Append(s, x)
    ELSE Append(InsertStable(SubSeq(s, 1, Len(s) - 1), x), s[Len(s)])

RECURSIVE sorted(_)
sorted(d) ==
    IF d = <<>> THEN <<>>
    ELSE InsertStable(sorted(SubSeq(d, 1, Len(d) - 1)), d[Len(d)])

\* variant: the slice starts floor(quantile * num_agents) from the end
UpperQuantileFloor(policy_reward_mean, a) ==
    KeyList(SliceFrom(sorted(policy_reward_mean),
                      -Floor(a.quantile[1] * a.num_agents, a.quantile[2])))

\* sorted_rewards[int(math.floor(args.quantile * -args.num_agents)):]
UpperQuantile(policy_reward_mean, a) ==
    KeyList(SliceFrom(sorted(policy_reward_mean),
                      Floor(-(a.quantile[1] * a.num_agents), a.quantile[2])))

\* sorted_rewards[:int(math.ceil(args.quantile * args.num_agents))]
LowerQuantile(policy_reward_mean, a) ==
    KeyList(SliceTo(sorted(policy_reward_mean),
                    Ceil(a.quantile[1] * a.num_agents, a.quantile[2])))

(* --------------------------- exploration ------------------------------- *)
\* variant: the previous neighbour is taken without the clamp at index 0
explore_helper_unclamped(exemplar, distribution, a) ==
    LET present == exemplar \in Elems(distribution)
        resample == IF CanResample(a) \/ ~present
                    THEN {[new_val |-> distribution[k], via |-> "resample"] :
                             k \in 1..Len(distribution)}
                    ELSE {}
        previous == IF present /\ CanKeep(a)
                    THEN {[new_val |-> PyIndex(distribution,
                                               IndexOf(distribution, exemplar) - 1),
                           via |-> "previous"]}
                    ELSE {}
        next     == IF present /\ CanKeep(a)
                    THEN {[new_val |-> PyIndex(distribution,
                                               Min2(Len(distribution) - 1,
                                                    IndexOf(distribution, exemplar) + 1)),
                           via |-> "next"]}
                    ELSE {}
    IN  resample \cup previous \cup next

\* the values explore_helper can return, with the branch that produced them
explore_helper(exemplar, distribution, a) ==
    LET present == exemplar \in Elems(distribution)
        resample == IF CanResample(a) \/ ~present
                    THEN {[new_val |-> distribution[k], via |-> "resample"] :
                             k \in 1..Len(distribution)}
                    ELSE {}
        previous == IF present /\ CanKeep(a)
                    THEN {[new_val |-> PyIndex(distribution,
                                               Max2(0, IndexOf(distribution, exemplar) - 1)),
                           via |-> "previous"]}
                    ELSE {}
        next     == IF present /\ CanKeep(a)
                    THEN {[new_val |-> PyIndex(distribution,
                                               Min2(Len(distribution) - 1,
                                                    IndexOf(distribution, exemplar) + 1)),
                           via |-> "next"]}
                    ELSE {}
    IN  resample \cup previous \cup next

\* the exemplar policy each tunable parameter of one low-performer is read from:
\* new_policy_graph is fetched once, before the three parameter blocks
ExemplarsFor(h) == [lr |-> h, gamma |-> h, entropy_coeff |-> h]

\* variant: random.choice(upper_quantile) is evaluated once per parameter
ExemplarChoicesPerParam(upper) ==
    [lr : Elems(upper), gamma : Elems(upper), entropy_coeff : Elems(upper)]

ExemplarChoices(upper) == {ExemplarsFor(h) : h \in Elems(upper)}

ExploreLr(pol, agent_id, h, a) ==
    IF "lr" \in a.explore_params
    THEN {[pol EXCEPT ![agent_id].lr_schedule = o.new_val] :
             o \in explore_helper(pol[h].cur_lr, a.lr, a)}
    ELSE {pol}

ExploreGamma(pol, agent_id, h, a) ==
    IF "gamma" \in a.explore_params
    THEN {[pol EXCEPT ![agent_id].gamma = o.new_val] :
             o \in explore_helper(pol[h].gamma, a.gammas, a)}
    ELSE {pol}

ExploreEntropy(pol, agent_id, h, a) ==
    IF "entropy_coeff" \in a.explore_params
    THEN {[pol EXCEPT ![agent_id].entropy_coeff = o.new_val] :
             o \in explore_helper(pol[h].entropy_coeff, a.entropy_coeffs, a)}
    ELSE {pol}

\* one pass of the loop body for agent_id with the exemplars ex
ExploreAgent(pol, agent_id, ex, a) ==
    UNION {UNION {ExploreEntropy(p2, agent_id, ex.entropy_coeff, a) :
                     p2 \in ExploreGamma(p1, agent_id, ex.gamma, a)} :
              p1 \in ExploreLr(pol, agent_id, ex.lr, a)}

\* for agent_id in lower_quantile: ..., policies mutated in place, in list order
RECURSIVE ExploreLoop(_, _, _, _, _)
ExploreLoop(pol, chosen, lower, upper, a) ==
    IF lower = <<>> THEN {[policies |-> pol, new_policy_graph |-> chosen]}
    ELSE UNION {UNION {ExploreLoop(p, Append(chosen, <<Head(lower), ex>>),
                                   Tail(lower), upper, a) :
                          p \in ExploreAgent(pol, Head(lower), ex, a)} :
                   ex \in ExemplarChoices(upper)}

explore(pol, policy_reward_mean, a) ==
    ExploreLoop(pol, <<>>, LowerQuantile(policy_reward_mean, a),
                UpperQuantile(policy_reward_mean, a), a)

(* ----------------------- result annotation ----------------------------- *)
\* np.mean / np.max of the reward values, np.nan when the signal is empty
Mean(policy_reward_mean) ==
    IF policy_reward_mean = <<>> THEN NaN
    ELSE RDiv(SumInt(Values(policy_reward_mean)), Len(policy_reward_mean))

Best(policy_reward_mean) ==
    IF policy_reward_mean = <<>> THEN NaN
    ELSE RDiv(MaxInt(Values(policy_reward_mean)), 1)

\* variant: the interval test comes before the test for iteration 1
BranchIntervalFirst(training_iteration, interval) ==
    IF training_iteration % interval = 0 THEN "federation"
    ELSE IF training_iteration = 1 THEN "init"
    ELSE "pass"

\* the arm of fed_learn's if / elif taken for this iteration
Branch(training_iteration, interval) ==
    IF training_iteration = 1 THEN "init"
    ELSE IF training_iteration % interval = 0 THEN "federation"
    ELSE "pass"

\* the label fed_learn leaves in result['federated']
Label(br) == IF br = "federation" THEN "Federation with temp" ELSE "No federation"

(* ------------------------------ inputs --------------------------------- *)
\* the mean rewards an agent can report
RewardVals == {0, 1}

\* args.quantile, a float in (0, 0.5], as an exact fraction <<num, den>>
QuantileFractions == {<<1, 8>>, <<1, 4>>, <<3, 8>>, <<1, 2>>}

ResampleProbabilities == {<<0, 1>>, <<1, 4>>, <<1, 1>>}

ExploreParamSets == {{"lr"}, {"gamma", "entropy_coeff"}}

\* the values the trainer's own gradient steps leave in an agent's ParameterSet
WeightVals == {<<2, 1>>}

\* every dict with exactly the keys K and values from V, in every insertion order
DictsOver(K, V) ==
    UNION {{[k \in 1..Len(p) |-> <<p[k], f[p[k]]>>] : f \in [K -> V]} : p \in Perms(K)}

\* the agents in ascending and in descending order
Ascending(a) == [k \in 1..a.num_agents |-> k - 1]

Descending(a) == [k \in 1..a.num_agents |-> a.num_agents - k]

\* result['policy_reward_mean']: empty, or one mean reward per agent, the agents
\* reporting in ascending or in descending order
RewardSignals(a) ==
    {<<>>} \cup
    UNION {{[k \in 1..Len(p) |-> <<p[k], f[p[k]]>>] : f \in [Agents(a) -> RewardVals]} :
              p \in {Ascending(a), Descending(a)}}

ArgsSet ==
    [num_agents : 2..MaxAgents,
     interval : 1..MaxInterval,
     quantile : {<<1, 2>>},
     explore_params : ExploreParamSets,
     resample_probability : {<<1, 4>>},
     lr : {<<1, 2>>},
     gammas : {<<1, 2>>},
     entropy_coeffs : {<<1>>}]

\* the function the experiment hands to the trainer as its per-iteration callback
Callbacks == {"fed_learn", "reward_weighted_update", "population_based_train"}

NoCall == [fn |-> "none"]

\* the result record the trainer hands to the callback for one iteration
FreshResult(it, policy_reward_mean) ==
    [training_iteration |-> it, policy_reward_mean |-> policy_reward_mean,
     info |-> [num_steps_trained |-> it], timesteps_total |-> 0,
     episode_reward_mean |-> NaN, episode_reward_best |-> NaN, federated |-> "unset"]

(* ------------------------------- Init ---------------------------------- *)
Init ==
    /\ args \in ArgsSet
    /\ callback \in Callbacks
    /\ weights = [i \in Agents(args) |-> <<i + 1, 1>>]
    /\ policies = [i \in Agents(args) |->
                     [cur_lr |-> 2, lr_schedule |-> 2, gamma |-> 0, entropy_coeff |-> 1]]
    /\ result = FreshResult(0, <<>>)
    /\ lastOp = "none"
    /\ branch = "none"
    /\ raised = "none"
    /\ all_weights = <<>>
    /\ lower_quantile = <<>>
    /\ upper_quantile = <<>>
    /\ new_policy_graph = <<>>
    /\ sel = NoCall
    /\ eh = NoCall
    /\ agg = NoCall

(* ------------------------------ actions -------------------------------- *)
\* one training iteration of the external trainer: an agent's weights move, each
\* policy's cur_lr picks up its lr_schedule, and the iteration's result is produced
Train ==
    /\ lastOp # "train"
    /\ result.training_iteration < MaxIter
    /\ \E i \in Agents(args), v \in WeightVals :
           weights' = [weights EXCEPT ![i] = v]
    /\ policies' = [i \in Agents(args) |->
                      [policies[i] EXCEPT !.cur_lr = policies[i].lr_schedule]]
    /\ \E policy_reward_mean \in RewardSignals(args) :
           result' = FreshResult(result.training_iteration + 1, policy_reward_mean)
    /\ lastOp' = "train"
    /\ branch' = "none"
    /\ raised' = "none"
    /\ all_weights' = <<>>
    /\ lower_quantile' = <<>>
    /\ upper_quantile' = <<>>
    /\ new_policy_graph' = <<>>
    /\ UNCHANGED <<args, callback, sel, eh, agg>>

\* softmax_reward_weighted_update(agent, result, args)
softmax_reward_weighted_update ==
    LET policy_reward_mean == result.policy_reward_mean
    IN  /\ all_weights' = get_weights(weights, args)
        /\ IF policy_reward_mean # <<>>
           THEN LET r == compute_softmax_weighted_avg(get_weights(weights, args),
                                                      policy_reward_mean, args)
                IN  IF r.raised = "none"
                    THEN /\ raised' = "none"
                         /\ weights' = synchronize(r.new_weights, args)
                         /\ lower_quantile' = LowerQuantile(policy_reward_mean, args)
                         /\ upper_quantile' = UpperQuantile(policy_reward_mean, args)
                         /\ \E o \in explore(policies, policy_reward_mean, args) :
                                /\ policies' = o.policies
                                /\ new_policy_graph' = o.new_policy_graph
                    ELSE /\ raised' = r.raised
                         /\ UNCHANGED <<weights, policies, lower_quantile, upper_quantile,
                                        new_policy_graph>>
           ELSE UNCHANGED <<raised, weights, policies, lower_quantile, upper_quantile,
                            new_policy_graph>>

\* the callback fed_learn(metrics) on the iteration's result
FedLearn ==
    /\ callback = "fed_learn"
    /\ lastOp = "train"
    /\ LET br == Branch(result.training_iteration, args.interval)
       IN  /\ result' = [result EXCEPT
                           !.timesteps_total = result.info.num_steps_trained,
                           !.episode_reward_mean = Mean(result.policy_reward_mean),
                           !.episode_reward_best = Best(result.policy_reward_mean),
                           !.federated = Label(br)]
           /\ branch' = br
           /\ IF br = "init"
              THEN /\ weights' = uniform_initialize(weights, args)
                   /\ UNCHANGED <<raised, policies, all_weights, lower_quantile,
                                  upper_quantile, new_policy_graph>>
              ELSE IF br = "federation"
              THEN softmax_reward_weighted_update
              ELSE UNCHANGED <<raised, weights, policies, all_weights, lower_quantile,
                               upper_quantile, new_policy_graph>>
    /\ lastOp' = "fed_learn"
    /\ UNCHANGED <<args, callback, sel, eh, agg>>

\* reward_weighted_update(agent, result, args)
RewardWeightedUpdate ==
    /\ callback = "reward_weighted_update"
    /\ lastOp = "train"
    /\ all_weights' = get_weights(weights, args)
    /\ IF result.policy_reward_mean # <<>>
       THEN LET r == compute_reward_weighted_avg(get_weights(weights, args),
                                                 result.policy_reward_mean, args)
            IN  /\ raised' = r.raised
                /\ IF r.raised = "none"
                   THEN weights' = synchronize(r.new_weights, args)
                   ELSE UNCHANGED weights
       ELSE UNCHANGED <<raised, weights>>
    /\ lastOp' = "reward_weighted_update"
    /\ UNCHANGED <<args, callback, policies, result, branch, lower_quantile, upper_quantile,
                   new_policy_graph, sel, eh, agg>>

\* variant: the membership test is inverted
ReplacedWeightsInverted(w, lower, choice, a) ==
    [agent_id \in Agents(a) |->
        IF agent_id \in Elems(lower) THEN w[agent_id] ELSE w[choice[agent_id]]]

\* new_weights of population_based_train; choice[a] is the random.choice(upper_quantile)
\* evaluated for agent a
ReplacedWeights(w, lower, choice, a) ==
    [agent_id \in Agents(a) |->
        IF agent_id \notin Elems(lower) THEN w[agent_id] ELSE w[choice[agent_id]]]

\* population_based_train(agent, result, args)
PopulationBasedTrain ==
    /\ callback = "population_based_train"
    /\ lastOp = "train"
    /\ all_weights' = get_weights(weights, args)
    /\ IF result.policy_reward_mean # <<>>
       THEN LET upper == UpperQuantile(result.policy_reward_mean, args)
                lower == LowerQuantile(result.policy_reward_mean, args)
            IN  /\ upper_quantile' = upper
                /\ lower_quantile' = lower
                /\ \E choice \in [Agents(args) -> Elems(upper)] :
                       weights' = ReplacedWeights(weights, lower, choice, args)
       ELSE UNCHANGED <<weights, lower_quantile, upper_quantile>>
    /\ lastOp' = "population_based_train"
    /\ UNCHANGED <<args, callback, raised, policies, result, branch, new_policy_graph, sel, eh, agg>>

Next == Train \/ FedLearn \/ RewardWeightedUpdate \/ PopulationBasedTrain

Spec == Init /\ [][Next]_vars

(* ------------- the pure functions, applied to drawn inputs ------------- *)
\* no function has been applied yet: each behaviour applies one function once
Idle == sel.fn = "none" /\ eh.fn = "none" /\ agg.fn = "none"

\* the rewards drawn for quantile selection
SelectRewardVals == 0..MaxPop

SelectSignals(n) ==
    LET a == [num_agents |-> n]
    IN  UNION {{[k \in 1..n |-> <<p[k], f[p[k]]>>] : f \in [Agents(a) -> SelectRewardVals]} :
                  p \in {Ascending(a), Descending(a)}}

\* quantile selection as explore and population_based_train run it
Select ==
    /\ Idle
    /\ \E n \in 1..MaxPop, q \in QuantileFractions :
         \E policy_reward_mean \in SelectSignals(n) :
           LET a == [num_agents |-> n, quantile |-> q]
           IN  sel' = [fn |-> "select", num_agents |-> n, quantile |-> q,
                       policy_reward_mean |-> policy_reward_mean,
                       lower_quantile |-> LowerQuantile(policy_reward_mean, a),
                       upper_quantile |-> UpperQuantile(policy_reward_mean, a)]
    /\ UNCHANGED <<mainVars, eh, agg>>

Distributions == UNION {[1..L -> 1..MaxLen] : L \in 1..MaxLen}

\* explore_helper(exemplar, distribution, args); exemplar 0 is in no distribution
Helper ==
    /\ Idle
    /\ \E distribution \in Distributions, exemplar \in 0..MaxLen,
          p \in ResampleProbabilities :
         \E o \in explore_helper(exemplar, distribution, [resample_probability |-> p]) :
           eh' = [fn |-> "explore_helper", exemplar |-> exemplar,
                  distribution |-> distribution, resample_probability |-> p,
                  new_val |-> o.new_val, via |-> o.via]
    /\ UNCHANGED <<mainVars, sel, agg>>

\* the dicts whose keys are any of the agent ids, in any insertion order
AnyRewardDicts == UNION {DictsOver(K, RewardVals) : K \in SUBSET (0..(MaxAgents - 1))}

WeightDicts(n) ==
    {[k \in 1..n |-> <<p[k], <<p[k] + 1, 1>>>>] : p \in Perms(0..(n - 1))}

\* compute_softmax_weighted_avg / compute_reward_weighted_avg(weights, alphas, args)
Aggregate ==
    /\ Idle
    /\ \E n \in 1..MaxAgents, mode \in {"softmax", "reward"} :
         \E w \in WeightDicts(n), alphas \in AnyRewardDicts :
           LET a == [num_agents |-> n]
               r == IF mode = "softmax"
                    THEN compute_softmax_weighted_avg(w, alphas, a)
                    ELSE compute_reward_weighted_avg(w, alphas, a)
           IN  agg' = [fn |-> mode, num_agents |-> n, weights |-> w, alphas |-> alphas,
                       raised |-> r.raised, new_weights |-> r.new_weights,
                       pairing |-> r.pairing]
    /\ UNCHANGED <<mainVars, sel, eh>>

InitFn ==
    /\ Init
    /\ args.num_agents = 2
    /\ args.interval = 1
    /\ args.explore_params = {"lr"}
    /\ callback = "fed_learn"

NextFn == Select \/ Helper \/ Aggregate

SpecFn == InitFn /\ [][NextFn]_vars

(* ============================== claims ================================= *)
\* the ParameterSet agent i held when the running call took its get_weights() snapshot
Snapshot(i) == all_weights[i + 1][2]

FederationDue == result.training_iteration > 1
                 /\ result.training_iteration % args.interval = 0

\* C1: when fed_learn runs on a would-be federation iteration (training_iteration > 1,
\* training_iteration mod interval = 0) with an empty policy_reward_mean, the result is
\* labelled "No federation" and no agent's weights or hyperparameters change.
C1_EmptyRewardIsNoFederation ==
    [][(lastOp' = "fed_learn" /\ FederationDue' /\ result'.policy_reward_mean = <<>>)
          => (/\ result'.federated = "No federation"
              /\ weights' = weights
              /\ policies' = policies)]_vars

\* C2: for every population size N >= 2 and quantile fraction q in (0, 0.5], the low set
\* and the high set selected from a reward signal with N entries are disjoint.
C2_QuantilesDisjoint ==
    (sel.fn = "select" /\ sel.num_agents >= 2)
        => Elems(sel.lower_quantile) \cap Elems(sel.upper_quantile) = {}

\* the agents of the selection's reward signal in ascending order of reward
SelSortedKeys == KeyList(sorted(sel.policy_reward_mean))

SelReward(key) ==
    LET d == sel.policy_reward_mean
    IN  d[CHOOSE k \in 1..Len(d) : d[k][1] = key][2]

SelCeil == Ceil(sel.quantile[1] * sel.num_agents, sel.quantile[2])

SelFloor == Floor(sel.quantile[1] * sel.num_agents, sel.quantile[2])

SelLowIsFirstCeil ==
    /\ \A k \in 1..(sel.num_agents - 1) :
           SelReward(SelSortedKeys[k]) <= SelReward(SelSortedKeys[k + 1])
    /\ sel.lower_quantile = SubSeq(SelSortedKeys, 1, SelCeil)

ScenarioA ==
    /\ sel.fn = "select"
    /\ sel.num_agents = 4
    /\ sel.quantile = <<1, 4>>
    /\ sel.policy_reward_mean = <<<<0, 1>>, <<1, 2>>, <<2, 3>>, <<3, 4>>>>

C4_IterationOneOnlyInitializes ==
    [][(lastOp' = "fed_learn" /\ result'.training_iteration = 1)
          => (/\ \A i \in Agents(args) : weights'[i] = weights[0]
              /\ policies' = policies
              /\ all_weights' = <<>> /\ all_weights = <<>>
              /\ lower_quantile' = <<>> /\ upper_quantile' = <<>>
              /\ new_policy_graph' = <<>>
              /\ result'.federated = "No federation"
              /\ uniform_initialize(weights', args) = weights')]_vars

\* iteration 1 with interval 1 ran, on weights that differed between the agents
C4_Witness ==
    /\ lastOp = "fed_learn"
    /\ result.training_iteration = 1
    /\ args.interval = 1
    /\ args.num_agents = 3
    /\ \A i \in Agents(args) : weights[i] = <<2, 1>>

\* C5: reward-proportional aggregation on rewards that sum to zero ends in the error
\* DegenerateRewardSignal and the agents' weights are not overwritten by the call.
C5_ZeroSumRewardsRaise ==
    (/\ lastOp = "reward_weighted_update"
     /\ result.policy_reward_mean # <<>>
     /\ SumInt(Values(result.policy_reward_mean)) = 0)
        => /\ raised = "DegenerateRewardSignal"
           /\ \A i \in Agents(args) : weights[i] = Snapshot(i)

\* C6: after population_based_train on a non-empty reward signal every agent in the low
\* set holds the pre-call ParameterSet of some agent in the high set, and every other
\* agent holds the ParameterSet it held before the call.
C6_ReplacementClosure ==
    (lastOp = "population_based_train" /\ result.policy_reward_mean # <<>>)
        => \A i \in Agents(args) :
              IF i \in Elems(lower_quantile)
              THEN \E h \in Elems(upper_quantile) : weights[i] = Snapshot(h)
              ELSE weights[i] = Snapshot(i)

\* a low-performer's ParameterSet was replaced by a different one
C6_Witness ==
    /\ lastOp = "population_based_train"
    /\ result.policy_reward_mean # <<>>
    /\ \E i \in Elems(lower_quantile) : weights[i] # Snapshot(i)
    /\ \E i \in Agents(args) : i \notin Elems(lower_quantile)

\* 1-based position of the exemplar of the explore_helper call in its distribution
EhIndex == IndexOf(eh.distribution, eh.exemplar) + 1

\* C7: explore_helper returns an element of the distribution; on the local-perturbation
\* branch, with the exemplar at index i, it returns the element at max(0, i-1) or at
\* min(L-1, i+1), and for L = 1 it returns the single element.
C7_PerturbationInBounds ==
    eh.fn = "explore_helper"
        => LET d == eh.distribution
               L == Len(d)
           IN  /\ \E k \in 1..L : eh.new_val = d[k]
               /\ eh.via = "previous"
                    => /\ eh.exemplar \in Elems(d)
                       /\ eh.new_val = d[IF EhIndex = 1 THEN 1 ELSE EhIndex - 1]
               /\ eh.via = "next"
                    => /\ eh.exemplar \in Elems(d)
                       /\ eh.new_val = d[IF EhIndex = L THEN L ELSE EhIndex + 1]
               /\ L = 1 => eh.new_val = d[1]

\* the previous neighbour was asked for at index 0 of a distribution whose ends differ
C7_Witness ==
    /\ eh.fn = "explore_helper"
    /\ eh.via = "previous"
    /\ Len(eh.distribution) >= 2
    /\ eh.exemplar = eh.distribution[1]
    /\ eh.distribution[Len(eh.distribution)] # eh.distribution[1]

\* C8: the callback's iteration class is a function of training_iteration and interval
\* alone (init at 1, federation at other multiples of interval, pass-through otherwise),
\* and a pass-through callback writes no agent's weights or hyperparameters.
C8_WritesOnlyOnInitOrFederation ==
    [][(lastOp' = "fed_learn" /\ lastOp = "train")
          => LET it == result'.training_iteration
                 due == it % args.interval = 0
             IN  /\ (branch' = "init") <=> (it = 1)
                 /\ (branch' = "federation") <=> (it # 1 /\ due)
                 /\ (branch' = "pass") <=> (it # 1 /\ ~due)
                 /\ it = result.training_iteration
                 /\ (it # 1 /\ ~due) => (weights' = weights /\ policies' = policies)]_vars

\* a pass-through callback ran on agents whose weights differ
C8_Witness ==
    /\ lastOp = "fed_learn"
    /\ branch = "pass"
    /\ result.training_iteration = 2
    /\ args.interval = 3
    /\ \E i \in Agents(args) : weights[i] # weights[0]

\* C9: when weights and rewards have the same keys, the coefficient multiplied onto an
\* agent's parameters is the one computed from that agent's own reward, in whatever order
\* the two mappings store their entries; when the key sets differ the call fails.
C9_CoefficientsFollowKeys ==
    agg.fn \in {"softmax", "reward"}
        => IF Keys(agg.weights) = Keys(agg.alphas)
           THEN /\ agg.raised = "none"
                /\ \A k \in 1..Len(agg.pairing) : agg.pairing[k].wkey = agg.pairing[k].rkey
           ELSE agg.raised # "none"

\* explore is about to run with at least two high-performers and two tunable parameters
ExploreDue ==
    /\ callback = "fed_learn"
    /\ lastOp = "train"
    /\ FederationDue
    /\ result.policy_reward_mean # <<>>
    /\ Cardinality(Elems(UpperQuantile(result.policy_reward_mean, args))) >= 2
    /\ Cardinality(args.explore_params) >= 2

\* C10 as stated: with two high-performers and two tunable parameters, one call of
\* explore can derive two parameters of one low-performer from different high-performers.
C10_ExemplarPerParameter ==
    ExploreDue
        => \E o \in explore(policies, result.policy_reward_mean, args) :
              \E k \in 1..Len(o.new_policy_graph) :
                 \E p1, p2 \in args.explore_params :
                    o.new_policy_graph[k][2][p1] # o.new_policy_graph[k][2][p2]

\* C10 amended: explore draws one exemplar from the high set per low-performer and reads
\* every tunable parameter of that low-performer from it; the draws of different
\* low-performers are independent.
C10_OneExemplarPerLowPerformer ==
    (lastOp = "fed_learn" /\ branch = "federation" /\ result.policy_reward_mean # <<>>)
        => /\ Len(new_policy_graph) = Len(lower_quantile)
           /\ \A k \in 1..Len(new_policy_graph) :
                 /\ new_policy_graph[k][1] = lower_quantile[k]
                 /\ \A p1, p2 \in args.explore_params :
                       /\ new_policy_graph[k][2][p1] = new_policy_graph[k][2][p2]
                       /\ new_policy_graph[k][2][p1] \in Elems(upper_quantile)

\* two low-performers of one call took different exemplars, two parameters being tunable
C10_Witness ==
    /\ lastOp = "fed_learn"
    /\ branch = "federation"
    /\ Cardinality(args.explore_params) >= 2
    /\ Len(new_policy_graph) >= 2
    /\ new_policy_graph[1][2].gamma # new_policy_graph[2][2].gamma

====
